---- MODULE Spec2Model ----
(***************************************************************************)
(* The FinOps reasoning engine of src/main.py as a state machine: one run  *)
(* of the LangGraph workflow scout -> auditor -> router -> (paymaster) ->  *)
(* escalate | complete -> END, with the collaborators (FinOpsDB, Gemini,   *)
(* issue_bounty) modelled by their possible outcomes.                      *)
(*                                                                         *)
(* Units: scores are hundredths (0.80 is 80), hourly cost is cents,        *)
(* bounties are 0.00001 ETH (0.00005 ETH is 5).  Timestamps of audit       *)
(* entries are left out; an entry is <<author, message, argument>>.        *)
(* LangGraph itself and its checkpointer are taken to work: a node gets    *)
(* the state the node before it returned, and only a node can raise.       *)
(***************************************************************************)
EXTENDS Integers, Sequences, FiniteSets, TLC

\* ------------------------------------------------------------------------
\* Bounds of the model
\* ------------------------------------------------------------------------
\* number of documents the knowledge store can hand back to one search
MaxDocs == 2
\* number of query variations the scout chooses from
NumAlerts == 2
\* length (in words) of the texts the classifier is applied to on its own
MaxTextLen == 3

\* ------------------------------------------------------------------------
\* Program constants
\* ------------------------------------------------------------------------
\* confidence threshold 0.80 of the auditor
Threshold == 80
\* limit=3 passed to search_infra_context by the auditor
SearchLimit == 3
\* default score_threshold=0.0 of search_infra_context
DefaultScoreThreshold == 0
\* bounty_amount = 0.00005
ShadowBounty == 5
\* monthly_savings = hourly_cost * 720
HoursPerMonth == 720

\* An optional value (Python's None, or a key a dict does not have) is the
\* empty sequence; a value v that is present is <<v>>
None == <<>>
Absent == <<>>
Some(v) == <<v>>
Val(o) == o[1]

\* dict.get(key, default) on a field that may be missing
Get(o, default) == IF o = Absent THEN default ELSE Val(o)

VARIABLES
    pc,              \* node the graph runs next, or END / RAISED / DONE
    state,           \* the AgentState threaded through the nodes
    calls,           \* collaborator calls made so far: <<callee, outcome>>, and
                     \* <<"results", "empty" | "matches">> when a search returns
    executed,        \* nodes executed so far, in order
    reasoning_logs,  \* documents inserted into reasoning_logs
    global_metrics,  \* documents inserted into global_metrics
    final_state,     \* what main() returns: the final state or None
    caller_state     \* the dict the last node was handed, as its caller sees it
                     \* after the call (the nodes assign into it and return it)

vars == <<pc, state, calls, executed, reasoning_logs, global_metrics, final_state,
          caller_state>>

\* ------------------------------------------------------------------------
\* Data
\* ------------------------------------------------------------------------
\* one of the query_variations of the scout; every variation carries a
\* non-empty search_query
alert_ids == <<"ALT-2026-001", "ALT-2026-002", "ALT-2026-003", "ALT-2026-004",
               "ALT-2026-005", "ALT-2026-006", "ALT-2026-007", "ALT-2026-008",
               "ALT-2026-009", "ALT-2026-010">>

Alert(a) == [alert_id |-> alert_ids[a], search_query |-> "query"]

query_variations == {Alert(a) : a \in 1..NumAlerts}

\* a document as the $project stage of the vector search returns it; score,
\* developer_wallet and hourly_cost may be missing
Doc == [_id : {"oid"},
        score : {Absent, Some(79), Some(80)},
        developer_wallet : {Absent, Some(""), Some("0xA")},
        hourly_cost : {Absent, Some(1224)}]

SeqsUpTo(S, n) == UNION {[1..k -> S] : k \in 0..n}

\* what the collection can return to one aggregate call
Corpora == SeqsUpTo(Doc, MaxDocs)

\* words of an analysis text, in several letter cases
Words == {"decommission", "DECOMMISSION", "Optimize", "optimize",
          "monitor", "Monitoring", "ignore"}

\* str.lower() on one word
LowerWord(w) ==
    CASE w = "DECOMMISSION" -> "decommission"
      [] w = "Optimize" -> "optimize"
      [] w = "Monitoring" -> "monitoring"
      [] OTHER -> w

\* str.lower() on a text
Lower(text) == [i \in DOMAIN text |-> LowerWord(text[i])]

\* the keywords that occur as substrings of a lower-case word
SubstringsOf(w) ==
    CASE w = "decommission" -> {"decommission"}
      [] w = "optimize" -> {"optimize"}
      [] w = "monitor" -> {"monitor"}
      [] w = "monitoring" -> {"monitor"}
      [] OTHER -> {}

\* Python's `kw in text`
In(kw, text) == \E i \in DOMAIN text : kw \in SubstringsOf(text[i])

\* the initial_state of main()
initial_state ==
    [server_info |-> None,
     audit_log |-> <<>>,
     confidence_score |-> None,
     workflow_status |-> "PROCESSING",
     context_data |-> None,
     analysis |-> None,
     recommendation |-> None,
     auditor_status |-> None,
     tx_hash |-> None,
     total_savings_usd |-> 0,
     total_bounties_paid_eth |-> 0]

Init ==
    /\ pc = "scout"
    /\ state = initial_state
    /\ calls = <<>>
    /\ executed = <<>>
    /\ reasoning_logs = <<>>
    /\ global_metrics = <<>>
    /\ final_state = None
    /\ caller_state = state

\* ------------------------------------------------------------------------
\* Scout
\* ------------------------------------------------------------------------
scout_node ==
    /\ pc = "scout"
    /\ \E current_alert \in query_variations :
         state' = [state EXCEPT
                     !.server_info = Some(current_alert),
                     !.workflow_status = "PROCESSING",
                     !.audit_log = @ \o << <<"Scout", "Alert detected", current_alert.alert_id>>,
                                           <<"Scout", "Resource flagged", current_alert.alert_id>> >>]
    /\ executed' = Append(executed, "scout")
    /\ pc' = "auditor"
    /\ UNCHANGED <<calls, reasoning_logs, global_metrics, final_state>>
    /\ caller_state' = state'

\* ------------------------------------------------------------------------
\* FinOpsDB (src/utils/mongo_client.py)
\* ------------------------------------------------------------------------
\* how one search can go: the embedding call fails, the aggregate fails with
\* OperationFailure "index not found", with another OperationFailure, with
\* another exception (connection lost), or returns documents
SearchOutcomes == {"ok", "embed_error", "index_not_found", "operation_failure",
                   "transport_error"}

Take(seq, n) == IF Len(seq) <= n THEN seq ELSE SubSeq(seq, 1, n)

\* query.strip(), on the queries of the model
strip(query) == IF query \in {" ", "  "} THEN "" ELSE query

\* FinOpsDB.search_infra_context: [raised, value]
search_infra_context(query, limit, score_threshold, outcome, corpus) ==
    IF query = "" \/ strip(query) = ""
    THEN [raised |-> FALSE, value |-> <<>>]
    ELSE CASE outcome = "embed_error" -> [raised |-> FALSE, value |-> <<>>]
           [] outcome = "index_not_found" -> [raised |-> FALSE, value |-> <<>>]
           [] outcome = "operation_failure" -> [raised |-> TRUE, value |-> <<>>]
           [] outcome = "transport_error" -> [raised |-> FALSE, value |-> <<>>]
           [] OTHER ->
                LET results == Take(corpus, limit)
                    filtered_results ==
                        SelectSeq(results, LAMBDA doc : Get(doc.score, 0) >= score_threshold)
                IN [raised |-> FALSE, value |-> filtered_results]

\* the log_entry FinOpsDB.save_reasoning_log inserts
log_entry(alert_id, workflow_status, recommendation, confidence_score, tx_hash, tx_amount, tx_recipient, context_data, analysis, audit_log) ==
    [alert_id |-> alert_id,
     workflow_status |-> workflow_status,
     recommendation |-> recommendation,
     confidence_score |-> confidence_score,
     analysis |-> analysis,
     context_data |-> context_data,
     audit_log |-> audit_log,
     transaction |-> IF tx_hash # None
                     THEN Some([tx_hash |-> Val(tx_hash), amount |-> tx_amount,
                                recipient |-> tx_recipient])
                     ELSE Absent]

\* FinOpsDB.save_reasoning_log: the collection after the call (the insert
\* either succeeds or raises and leaves the collection as it was)
save_reasoning_log(logs, entry, insert_ok) ==
    IF insert_ok THEN Append(logs, entry) ELSE logs

\* metrics_entry with the savings written where the bounty belongs
metrics_entry_savings_as_bounty(alert_id, hourly_cost, monthly_savings, bounty_amount) ==
    [alert_id |-> alert_id,
     hourly_cost |-> hourly_cost,
     monthly_savings |-> monthly_savings,
     bounty_amount |-> monthly_savings,
     settlement_status |-> "Pending Settlement",
     mode |-> "SHADOW"]

\* the metrics_entry FinOpsDB.save_global_metrics inserts
metrics_entry(alert_id, hourly_cost, monthly_savings, bounty_amount) ==
    [alert_id |-> alert_id,
     hourly_cost |-> hourly_cost,
     monthly_savings |-> monthly_savings,
     bounty_amount |-> bounty_amount,
     settlement_status |-> "Pending Settlement",
     mode |-> "SHADOW"]

save_global_metrics(metrics, entry, insert_ok) ==
    IF insert_ok THEN Append(metrics, entry) ELSE metrics

Outcome(ok) == IF ok THEN "ok" ELSE "raise"

\* ------------------------------------------------------------------------
\* Auditor
\* ------------------------------------------------------------------------
Max(a, b) == IF a >= b THEN a ELSE b

RECURSIVE max_score(_)
\* max(result.get('score', 0.0) for result in results), results non-empty
max_score(results) ==
    IF Len(results) = 1
    THEN Get(results[1].score, 0)
    ELSE Max(Get(results[1].score, 0), max_score(Tail(results)))

\* the gate with the threshold written a decimal place too low
below_threshold_misplaced_decimal(score) == score < 8

\* the gate that also stops a score equal to the threshold
below_threshold_inclusive(score) == score <= Threshold

\* the gate of the auditor: max_score < 0.80
below_threshold(score) == score < Threshold

\* clean_result: every key of the document but _id
serializable_results(results) ==
    [i \in DOMAIN results |->
        [score |-> results[i].score,
         developer_wallet |-> results[i].developer_wallet,
         hourly_cost |-> results[i].hourly_cost]]

\* classify with the optimize test moved in front of the decommission test
classify_optimize_first(analysis) ==
    IF In("optimize", Lower(analysis))
    THEN [recommendation |-> "OPTIMIZE", auditor_status |-> "REVIEW"]
    ELSE IF In("decommission", Lower(analysis))
    THEN [recommendation |-> "DECOMMISSION", auditor_status |-> "APPROVED"]
    ELSE IF In("monitor", Lower(analysis))
    THEN [recommendation |-> "MONITOR", auditor_status |-> "REVIEW"]
    ELSE [recommendation |-> "REVIEW", auditor_status |-> "REVIEW"]

\* the keyword parsing of the analysis text: first match wins
classify(analysis) ==
    IF In("decommission", Lower(analysis))
    THEN [recommendation |-> "DECOMMISSION", auditor_status |-> "APPROVED"]
    ELSE IF In("optimize", Lower(analysis))
    THEN [recommendation |-> "OPTIMIZE", auditor_status |-> "REVIEW"]
    ELSE IF In("monitor", Lower(analysis))
    THEN [recommendation |-> "MONITOR", auditor_status |-> "REVIEW"]
    ELSE [recommendation |-> "REVIEW", auditor_status |-> "REVIEW"]

\* extract_recommendation that approves a state only once: a state that is
\* already APPROVED is sent to review
extract_recommendation_once(s) ==
    IF s.auditor_status = Some("APPROVED")
    THEN [s EXCEPT !.recommendation = Some("REVIEW"), !.auditor_status = Some("REVIEW")]
    ELSE [s EXCEPT !.recommendation = Some(classify(Val(s.analysis)).recommendation),
                   !.auditor_status = Some(classify(Val(s.analysis)).auditor_status)]

\* the statements of the auditor that store the classification
extract_recommendation(s) ==
    [s EXCEPT !.recommendation = Some(classify(Val(s.analysis)).recommendation),
              !.auditor_status = Some(classify(Val(s.analysis)).auditor_status)]

\* auditor_except that puts the error entry at the head of the log
auditor_except_inserts_first(s, cause) ==
    [s EXCEPT !.workflow_status = "ESCALATED",
              !.audit_log = << <<"Auditor", "ERROR", cause>> >> \o @]

\* auditor_except that records the error and leaves the status as it was
auditor_except_keeps_status(s, cause) ==
    [s EXCEPT !.audit_log = Append(@, <<"Auditor", "ERROR", cause>>)]

\* the except branch of the auditor
auditor_except(s, cause) ==
    [s EXCEPT !.workflow_status = "ESCALATED",
              !.audit_log = Append(@, <<"Auditor", "ERROR", cause>>)]

\* db.close() at the end of a path of the auditor; a failure lands in the
\* except branch
auditor_close(s, close_ok) == IF close_ok THEN s ELSE auditor_except(s, "close")

\* the analysis texts the reasoning service answers with inside a run
AnalysisTexts == {<<>>, <<"ignore">>, <<"DECOMMISSION">>, <<"Optimize">>,
                  <<"Monitoring">>, <<"optimize", "decommission">>}

\* what the reasoning service can do: raise, answer without text, or answer
ReasoningOutcomes ==
    {[kind |-> "raise", text |-> <<>>], [kind |-> "none", text |-> <<>>]}
    \cup {[kind |-> "text", text |-> t] : t \in AnalysisTexts}

\* no_context_state that escalates without recording a confidence
no_context_state_unscored(s) ==
    [s EXCEPT !.workflow_status = "ESCALATED",
              !.audit_log = Append(@, <<"Auditor",
                                        "ESCALATED - No matching context found", "">>)]

\* the state the auditor leaves when the search found nothing
no_context_state(s) ==
    [s EXCEPT !.confidence_score = Some(0),
              !.workflow_status = "ESCALATED",
              !.audit_log = Append(@, <<"Auditor",
                                        "ESCALATED - No matching context found", "">>)]

\* auditor: `if not results`
auditor_no_context(s, c) ==
    \E close_ok \in BOOLEAN :
        /\ state' = auditor_close(no_context_state(s), close_ok)
        /\ calls' = Append(c, <<"close", Outcome(close_ok)>>)
        /\ UNCHANGED reasoning_logs

\* low_confidence_state that escalates without an audit entry
low_confidence_state_silent(s, score, results) ==
    [s EXCEPT !.confidence_score = Some(score),
              !.workflow_status = "ESCALATED",
              !.recommendation = Some("NO CHANGE"),
              !.context_data = Some(results)]

\* low_confidence_state that leaves the recommendation as it was
low_confidence_state_no_recommendation(s, score, results) ==
    [s EXCEPT !.confidence_score = Some(score),
              !.workflow_status = "ESCALATED",
              !.context_data = Some(results),
              !.audit_log = Append(@, <<"Auditor",
                  "ESCALATED - Confidence below threshold. Recommendation: NO CHANGE",
                  ToString(score)>>)]

\* the state the auditor leaves when the score is below the threshold
low_confidence_state(s, score, results) ==
    [s EXCEPT !.confidence_score = Some(score),
              !.workflow_status = "ESCALATED",
              !.recommendation = Some("NO CHANGE"),
              !.context_data = Some(results),
              !.audit_log = Append(@, <<"Auditor",
                  "ESCALATED - Confidence below threshold. Recommendation: NO CHANGE",
                  ToString(score)>>)]

\* auditor: `if max_score < 0.80`, s already carries confidence_score and
\* the serializable context_data
auditor_low_confidence(s, c, results) ==
    \E insert_ok \in BOOLEAN, close_ok \in BOOLEAN :
        LET score == Val(s.confidence_score)
            s1 == low_confidence_state(s, score, results)
            entry == log_entry(Val(s1.server_info).alert_id, "ESCALATED", Some("NO CHANGE"),
                               Some(score), None, None, None, Some(results),
                               Some(<<"Low confidence - no action taken">>), s1.audit_log)
        IN /\ state' = auditor_close(s1, close_ok)
           /\ reasoning_logs' = save_reasoning_log(reasoning_logs, entry, insert_ok)
           /\ calls' = c \o << <<"save_reasoning_log", Outcome(insert_ok)>>,
                               <<"close", Outcome(close_ok)>> >>

\* auditor: the analysis with Gemini and the parsing of its text
auditor_analyze(s, c) ==
    \E reasoning \in ReasoningOutcomes :
        LET score == Val(s.confidence_score)
            analysis == IF reasoning.kind = "text" THEN Some(reasoning.text) ELSE None
            s1 == [s EXCEPT !.analysis = analysis,
                            !.workflow_status = "COMPLETED",
                            !.audit_log = Append(@, <<"Auditor",
                                "Analysis completed - Status COMPLETED", ToString(score)>>)]
        IN CASE reasoning.kind = "raise" ->
                  /\ state' = auditor_except(s, "reasoning")
                  /\ calls' = Append(c, <<"generate_content", "raise">>)
                  /\ UNCHANGED reasoning_logs
             [] reasoning.kind = "none" ->
                  /\ state' = auditor_except(s1, "analysis is None")
                  /\ calls' = Append(c, <<"generate_content", "none">>)
                  /\ UNCHANGED reasoning_logs
             [] OTHER ->
                  \E close_ok \in BOOLEAN :
                      /\ state' = auditor_close(extract_recommendation(s1), close_ok)
                      /\ calls' = c \o << <<"generate_content", "ok">>,
                                          <<"close", Outcome(close_ok)>> >>
                      /\ UNCHANGED reasoning_logs

\* auditor: the try block after FinOpsDB() succeeded
auditor_search(s, c) ==
    \E outcome \in SearchOutcomes :
      \E corpus \in (IF outcome = "ok" THEN Corpora ELSE {<<>>}) :
        LET alert == Val(s.server_info)
            found == search_infra_context(alert.search_query, SearchLimit,
                                          DefaultScoreThreshold, outcome, corpus)
            results == found.value
            c1 == Append(c, <<"search_infra_context", outcome>>)
                  \o (IF found.raised THEN <<>>
                      ELSE << <<"results", IF results = <<>> THEN "empty" ELSE "matches">> >>)
        IN IF found.raised
           THEN /\ state' = auditor_except(s, "search")
                /\ calls' = c1
                /\ UNCHANGED reasoning_logs
           ELSE IF results = <<>>
           THEN auditor_no_context(s, c1)
           ELSE LET s1 == [s EXCEPT !.confidence_score = Some(max_score(results)),
                                    !.context_data = Some(serializable_results(results))]
                IN IF below_threshold(max_score(results))
                   THEN auditor_low_confidence(s1, c1, results)
                   ELSE auditor_analyze(s1, c1)

auditor_node ==
    /\ pc = "auditor"
    /\ IF state.server_info = None
       THEN /\ state' = [state EXCEPT !.workflow_status = "ESCALATED"]
            /\ UNCHANGED <<calls, reasoning_logs>>
       ELSE \E open_ok \in BOOLEAN :
              IF open_ok
              THEN auditor_search(state, Append(calls, <<"FinOpsDB", "ok">>))
              ELSE /\ state' = auditor_except(state, "store_open")
                   /\ calls' = Append(calls, <<"FinOpsDB", "raise">>)
                   /\ UNCHANGED reasoning_logs
    /\ executed' = Append(executed, "auditor")
    /\ pc' = "router"
    /\ UNCHANGED <<global_metrics, final_state>>
    /\ caller_state' = state'

\* ------------------------------------------------------------------------
\* Router
\* ------------------------------------------------------------------------
\* route_workflow that sends every completed run to the paymaster
route_workflow_always_pay(s) ==
    IF s.workflow_status = "ESCALATED" THEN "escalate"
    ELSE IF s.workflow_status = "COMPLETED" THEN "paymaster"
    ELSE "continue"

\* route_workflow that tests the approval before the escalation
route_workflow_approval_first(s) ==
    IF s.auditor_status = Some("APPROVED") /\ s.workflow_status # "PROCESSING"
    THEN "paymaster"
    ELSE IF s.workflow_status = "ESCALATED" THEN "escalate"
    ELSE IF s.workflow_status = "COMPLETED" THEN "complete"
    ELSE "continue"

\* route_workflow: the next step from workflow_status and auditor_status
route_workflow(s) ==
    IF s.workflow_status = "ESCALATED" THEN "escalate"
    ELSE IF s.workflow_status = "COMPLETED"
    THEN IF s.auditor_status = Some("APPROVED") THEN "paymaster" ELSE "complete"
    ELSE "continue"

\* the mapping with the escalation sent back to the auditor for a retry
conditional_edges_retry(r) ==
    CASE r = "escalate" -> "auditor"
      [] r = "paymaster" -> "paymaster"
      [] r = "complete" -> "complete"
      [] r = "continue" -> "END"

\* the mapping of add_conditional_edges("auditor", route_workflow, ...)
conditional_edges(r) ==
    CASE r = "escalate" -> "escalate"
      [] r = "paymaster" -> "paymaster"
      [] r = "complete" -> "complete"
      [] r = "continue" -> "END"

route ==
    /\ pc = "router"
    /\ pc' = conditional_edges(route_workflow(state))
    /\ UNCHANGED <<state, calls, executed, reasoning_logs, global_metrics, final_state,
                   caller_state>>

\* ------------------------------------------------------------------------
\* Payment rail (src/utils/agent_kit.py)
\* ------------------------------------------------------------------------
\* the values secrets.token_hex(32) is drawn from
TokenHex == {"a1", "b2"}

simulate_blockchain_transaction(recipient, amount, random_hex) ==
    [success |-> TRUE,
     tx_hash |-> Some(<<"0x_sim_", random_hex>>),
     amount |-> amount,
     recipient |-> recipient,
     network |-> "base-sepolia-shadow",
     mode |-> "SHADOW",
     error |-> Absent]

\* how a live transfer can go once the account exists
TransferOutcomes == {"submitted", "zero_balance", "insufficient_balance",
                     "transfer_raises", "run_raises"}

\* what the live environment decides: credentials present, wallet
\* initialised, result of the transfer
LiveEnvs == [credentials : BOOLEAN, wallet : BOOLEAN, transfer : TransferOutcomes]

\* the environment of a call in shadow mode, which never consults it
no_live_env == [credentials |-> FALSE, wallet |-> FALSE, transfer |-> "run_raises"]

\* PaymasterAgent._transfer_async
transfer_async(recipient_address, amount, transfer) ==
    IF transfer = "submitted"
    THEN [success |-> TRUE,
          tx_hash |-> Some(<<"0x", "onchain">>),
          amount |-> amount,
          recipient |-> recipient_address,
          network |-> "base-sepolia",
          mode |-> "LIVE",
          error |-> Absent]
    ELSE [success |-> FALSE,
          tx_hash |-> Absent,
          amount |-> amount,
          recipient |-> recipient_address,
          network |-> "base-sepolia",
          mode |-> "LIVE",
          error |-> Some(transfer)]

\* recipient_address.startswith('0x'), on the addresses of the model
startswith_0x(address) == address \in {"0xA"}

\* PaymasterAgent.issue_bounty: [raised, value]
agent_issue_bounty(amount, recipient_address, shadow_mode, account, transfer, random_hex) ==
    IF recipient_address = None \/ ~startswith_0x(Val(recipient_address))
    THEN [raised |-> TRUE, value |-> None]
    ELSE IF amount <= 0
    THEN [raised |-> TRUE, value |-> None]
    ELSE IF shadow_mode
    THEN [raised |-> FALSE,
          value |-> Some(simulate_blockchain_transaction(recipient_address, amount, random_hex))]
    ELSE IF ~account
    THEN [raised |-> FALSE,
          value |-> Some(simulate_blockchain_transaction(recipient_address, amount, random_hex))]
    ELSE IF transfer = "run_raises"
    THEN [raised |-> FALSE,
          value |-> Some(simulate_blockchain_transaction(recipient_address, amount, random_hex))]
    ELSE [raised |-> FALSE,
          value |-> Some(transfer_async(recipient_address, amount, transfer))]

\* issue_bounty that attempts the live transfer whatever the mode flag says
issue_bounty_live_first(amount, recipient_address, shadow_mode, env, random_hex) ==
    IF ~env.credentials \/ ~env.wallet
    THEN simulate_blockchain_transaction(recipient_address, amount, random_hex)
    ELSE LET result == agent_issue_bounty(amount, recipient_address, FALSE, TRUE,
                                          env.transfer, random_hex)
         IN IF result.raised
            THEN simulate_blockchain_transaction(recipient_address, amount, random_hex)
            ELSE Val(result.value)

\* the standalone issue_bounty: always returns a result
issue_bounty(amount, recipient_address, shadow_mode, env, random_hex) ==
    IF shadow_mode
    THEN simulate_blockchain_transaction(recipient_address, amount, random_hex)
    ELSE IF ~env.credentials \/ ~env.wallet
    THEN simulate_blockchain_transaction(recipient_address, amount, random_hex)
    ELSE LET result == agent_issue_bounty(amount, recipient_address, FALSE, TRUE,
                                          env.transfer, random_hex)
         IN IF result.raised
            THEN simulate_blockchain_transaction(recipient_address, amount, random_hex)
            ELSE Val(result.value)

\* ------------------------------------------------------------------------
\* Paymaster
\* ------------------------------------------------------------------------
\* paymaster_except that swallows the error without an audit entry
paymaster_except_silent(s, cause) == s

\* paymaster_except that takes the payment back out of the state
paymaster_except_rolls_back(s, cause) ==
    [s EXCEPT !.tx_hash = None,
              !.total_savings_usd = 0,
              !.total_bounties_paid_eth = 0,
              !.audit_log = Append(@, <<"Paymaster", "ERROR", cause>>)]

\* paymaster_except that escalates the run as the auditor's does
paymaster_except_escalates(s, cause) ==
    [s EXCEPT !.workflow_status = "ESCALATED",
              !.audit_log = Append(@, <<"Paymaster", "ERROR", cause>>)]

\* paymaster_except that also withdraws the recommendation
paymaster_except_withdraws(s, cause) ==
    [s EXCEPT !.recommendation = None,
              !.audit_log = Append(@, <<"Paymaster", "ERROR", cause>>)]

\* the except branch of the paymaster
paymaster_except(s, cause) ==
    [s EXCEPT !.audit_log = Append(@, <<"Paymaster", "ERROR", cause>>)]

\* a bounty of nothing
bounty_amount_nothing(hourly_cost) == 0

\* bounty_amount as hourly_cost * 0.001 without bounds (an hourly_cost in
\* cents times 0.001 is that many units of 0.00001)
bounty_amount_share_of_cost(hourly_cost) == hourly_cost

\* bounty_amount: fixed for the shadow mode demo
bounty_amount(hourly_cost) == ShadowBounty

\* monthly_savings as the saving of one day
monthly_savings_of_a_day(hourly_cost) == hourly_cost * 24

\* monthly_savings = hourly_cost * 720
monthly_savings(hourly_cost) == hourly_cost * HoursPerMonth

\* how the persistence after a successful payment can go
PersistOutcomes == {"ok", "open_raises", "log_raises", "metrics_raises", "close_raises"}

\* paymaster: the branch `if result.get('success')`
paymaster_paid(s, c, result, top_match) ==
    \E persist \in PersistOutcomes :
        LET hourly_cost == Get(top_match.hourly_cost, 0)
            s1 == [s EXCEPT !.tx_hash = result.tx_hash,
                            !.total_savings_usd = @ + monthly_savings(hourly_cost),
                            !.total_bounties_paid_eth = @ + bounty_amount(hourly_cost),
                            !.audit_log = Append(@, <<"Paymaster",
                                "Payment successful (SHADOW)", Val(result.tx_hash)[2]>>)]
            alert_id == Val(s1.server_info).alert_id
            entry == log_entry(alert_id, "APPROVED", s1.recommendation, s1.confidence_score,
                               result.tx_hash, bounty_amount(hourly_cost),
                               top_match.developer_wallet, s1.context_data, s1.analysis,
                               s1.audit_log)
            metrics == metrics_entry(alert_id, hourly_cost, monthly_savings(hourly_cost),
                                     bounty_amount(hourly_cost))
            log_done == persist \in {"ok", "metrics_raises", "close_raises"}
            metrics_done == persist \in {"ok", "close_raises"}
        IN /\ state' = IF persist = "ok" THEN s1 ELSE paymaster_except(s1, persist)
           /\ reasoning_logs' = save_reasoning_log(reasoning_logs, entry, log_done)
           /\ global_metrics' = save_global_metrics(global_metrics, metrics, metrics_done)
           /\ calls' = c
                \o << <<"FinOpsDB", Outcome(persist # "open_raises")>> >>
                \o (IF persist = "open_raises" THEN <<>>
                    ELSE << <<"save_reasoning_log", Outcome(log_done)>> >>)
                \o (IF log_done
                    THEN << <<"save_global_metrics", Outcome(metrics_done)>> >>
                    ELSE <<>>)
                \o (IF metrics_done
                    THEN << <<"close", Outcome(persist = "ok")>> >>
                    ELSE <<>>)

\* `not recipient_wallet` with the None test alone
no_wallet_none_only(recipient_wallet) == recipient_wallet = None

\* `not recipient_wallet`: the key is missing, or holds None or ''
no_wallet(recipient_wallet) == recipient_wallet = None \/ recipient_wallet = Some("")

\* paymaster: the try block
paymaster_try(s, c) ==
    \E import_ok \in BOOLEAN :
        LET c0 == Append(c, <<"import issue_bounty", Outcome(import_ok)>>)
        IN IF ~import_ok
           THEN /\ state' = paymaster_except(s, "import")
                /\ calls' = c0
                /\ UNCHANGED <<reasoning_logs, global_metrics>>
           ELSE IF s.context_data = None \/ s.context_data = Some(<<>>)
           THEN /\ state' = [s EXCEPT !.audit_log = Append(@, <<"Paymaster",
                                           "Failed - No context data", "">>)]
                /\ calls' = c0
                /\ UNCHANGED <<reasoning_logs, global_metrics>>
           ELSE LET top_match == Val(s.context_data)[1]
                    recipient_wallet == top_match.developer_wallet
                IN IF no_wallet(recipient_wallet)
                   THEN /\ state' = [s EXCEPT !.audit_log = Append(@, <<"Paymaster",
                                                  "Failed - No wallet address", "">>)]
                        /\ calls' = c0
                        /\ UNCHANGED <<reasoning_logs, global_metrics>>
                   ELSE \E random_hex \in TokenHex :
                          LET amount == bounty_amount(Get(top_match.hourly_cost, 0))
                              result == issue_bounty(amount, recipient_wallet, TRUE,
                                                     no_live_env, random_hex)
                              c1 == c0 \o << <<"issue_bounty.amount", ToString(amount)>>,
                                             <<"issue_bounty",
                                               IF result.success THEN "ok" ELSE "failed">> >>
                          IN IF result.success
                             THEN paymaster_paid(s, c1, result, top_match)
                             ELSE /\ state' = [s EXCEPT !.audit_log = Append(@,
                                                   <<"Paymaster", "Payment failed",
                                                     Val(result.error)>>)]
                                  /\ calls' = c1
                                  /\ UNCHANGED <<reasoning_logs, global_metrics>>

\* the skip test that looks for REVIEW instead of anything but APPROVED
not_approved_review_only(s) == s.auditor_status = Some("REVIEW")

\* `state.get('auditor_status') != 'APPROVED'`
not_approved(s) == s.auditor_status # Some("APPROVED")

paymaster_node ==
    /\ pc = "paymaster"
    /\ IF not_approved(state)
       THEN /\ state' = [state EXCEPT !.audit_log = Append(@, <<"Paymaster",
                                          "Skipped - Not approved", "">>)]
            /\ UNCHANGED <<calls, reasoning_logs, global_metrics>>
       ELSE paymaster_try(state, calls)
    /\ executed' = Append(executed, "paymaster")
    /\ pc' = "complete"
    /\ UNCHANGED final_state
    /\ caller_state' = state'

\* ------------------------------------------------------------------------
\* Terminal nodes
\* ------------------------------------------------------------------------
\* f"{state.get('confidence_score', 0):.4f}" and alert.get(...) raise when
\* the key holds None
format_raises(s) == s.server_info = None \/ s.confidence_score = None

escalate_node ==
    /\ pc = "escalate"
    /\ executed' = Append(executed, "escalate")
    /\ IF format_raises(state)
       THEN /\ pc' = "RAISED"
            /\ UNCHANGED state
       ELSE /\ pc' = "END"
            /\ state' = [state EXCEPT !.audit_log = Append(@, <<"System",
                                          "Alert escalated to human review", "">>)]
    /\ UNCHANGED <<calls, reasoning_logs, global_metrics, final_state>>
    /\ caller_state' = state'

complete_node ==
    /\ pc = "complete"
    /\ executed' = Append(executed, "complete")
    /\ IF format_raises(state)
       THEN /\ pc' = "RAISED"
            /\ UNCHANGED state
       ELSE /\ pc' = "END"
            /\ state' = [state EXCEPT !.audit_log = Append(@, <<"System",
                                          "Workflow completed successfully", "">>)]
    /\ UNCHANGED <<calls, reasoning_logs, global_metrics, final_state>>
    /\ caller_state' = state'

\* ------------------------------------------------------------------------
\* main(): graph.invoke returns the final state, or raises and main
\* returns None
\* ------------------------------------------------------------------------
main_return ==
    /\ pc \in {"END", "RAISED"}
    /\ final_state' = IF pc = "END" THEN Some(state) ELSE None
    /\ pc' = "DONE"
    /\ UNCHANGED <<state, calls, executed, reasoning_logs, global_metrics, caller_state>>

Next ==
    \/ scout_node
    \/ auditor_node
    \/ route
    \/ paymaster_node
    \/ escalate_node
    \/ complete_node
    \/ main_return

Spec == Init /\ [][Next]_vars

\* ------------------------------------------------------------------------
\* The classifier on its own: the parsing statements of the auditor applied
\* to a state that holds an analysis text, and applied again
\* ------------------------------------------------------------------------
InitClassify ==
    /\ pc = "classify"
    /\ \E text \in SeqsUpTo(Words, MaxTextLen),
          recommendation \in {None, Some("NO CHANGE"), Some("MONITOR")},
          auditor_status \in {None, Some("APPROVED")} :
         state = [initial_state EXCEPT !.analysis = Some(text),
                                       !.workflow_status = "COMPLETED",
                                       !.recommendation = recommendation,
                                       !.auditor_status = auditor_status]
    /\ calls = <<>>
    /\ executed = <<>>
    /\ reasoning_logs = <<>>
    /\ global_metrics = <<>>
    /\ final_state = None
    /\ caller_state = state

classify_step ==
    /\ pc \in {"classify", "classified"}
    /\ state' = extract_recommendation(state)
    /\ pc' = IF pc = "classify" THEN "classified" ELSE "reclassified"
    /\ UNCHANGED <<calls, executed, reasoning_logs, global_metrics, final_state>>
    /\ caller_state' = state'

NextClassify == classify_step

SpecClassify == InitClassify /\ [][NextClassify]_vars

\* ------------------------------------------------------------------------
\* The router on its own: route_workflow called by the conditional edge on
\* any state dict, whatever its fields hold
\* ------------------------------------------------------------------------
InitRoute ==
    /\ pc = "router"
    /\ \E a \in 1..NumAlerts,
          workflow_status \in {"PROCESSING", "ESCALATED", "COMPLETED"},
          auditor_status \in {None, Some("REVIEW"), Some("APPROVED")},
          recommendation \in {None, Some("NO CHANGE"), Some("DECOMMISSION"), Some("REVIEW")},
          confidence_score \in {None, Some(0), Some(79), Some(80)},
          context_data \in {None, Some(<<>>)},
          tx_hash \in {None, Some(<<"0x_sim_", "a1">>)} :
         state = [initial_state EXCEPT !.server_info = Some(Alert(a)),
                                       !.workflow_status = workflow_status,
                                       !.auditor_status = auditor_status,
                                       !.recommendation = recommendation,
                                       !.confidence_score = confidence_score,
                                       !.context_data = context_data,
                                       !.tx_hash = tx_hash]
    /\ calls = <<>>
    /\ executed = <<>>
    /\ reasoning_logs = <<>>
    /\ global_metrics = <<>>
    /\ final_state = None
    /\ caller_state = state

NextRoute == route

SpecRoute == InitRoute /\ [][NextRoute]_vars

\* ------------------------------------------------------------------------
\* The graph from the auditor on: auditor_node called on a state dict that
\* holds an alert or none, followed by the edges that leave it
\* ------------------------------------------------------------------------
InitAuditor ==
    /\ pc = "auditor"
    /\ \E server_info \in {None} \cup {Some(alert) : alert \in query_variations} :
         state = [initial_state EXCEPT !.server_info = server_info]
    /\ calls = <<>>
    /\ executed = <<>>
    /\ reasoning_logs = <<>>
    /\ global_metrics = <<>>
    /\ final_state = None
    /\ caller_state = state

NextAuditor ==
    \/ auditor_node
    \/ route
    \/ paymaster_node
    \/ escalate_node
    \/ complete_node
    \/ main_return

SpecAuditor == InitAuditor /\ [][NextAuditor]_vars

\* ------------------------------------------------------------------------
\* The paymaster on its own: paymaster_node called on a completed state
\* dict with any approval and any context data, followed by complete
\* ------------------------------------------------------------------------
InitPaymaster ==
    /\ pc = "paymaster"
    /\ \E auditor_status \in {None, Some("REVIEW"), Some("APPROVED")},
          context_data \in {None} \cup {Some(serializable_results(c)) : c \in Corpora} :
         state = [initial_state EXCEPT !.server_info = Some(Alert(1)),
                                       !.workflow_status = "COMPLETED",
                                       !.confidence_score = Some(Threshold),
                                       !.context_data = context_data,
                                       !.analysis = Some(<<"DECOMMISSION">>),
                                       !.recommendation = Some("DECOMMISSION"),
                                       !.auditor_status = auditor_status]
    /\ calls = <<>>
    /\ executed = <<>>
    /\ reasoning_logs = <<>>
    /\ global_metrics = <<>>
    /\ final_state = None
    /\ caller_state = state

NextPaymaster ==
    \/ paymaster_node
    \/ complete_node
    \/ main_return

SpecPaymaster == InitPaymaster /\ [][NextPaymaster]_vars

\* ------------------------------------------------------------------------
\* Invocations of main(): each reads the clock, names its run after the
\* reading and invokes the graph under that name; invocations may be
\* concurrent, so each reads any instant
\* ------------------------------------------------------------------------
\* invocations of main() in one behaviour
MaxInvocations == 3

\* the instants of the clock, in ticks
MaxTick == 5

\* ticks of the clock in one second: datetime.now() is finer than the %S
\* of the format
TicksPerSecond == 2

\* strftime('%Y%m%d-%H%M%S'): the instant cut down to its second
strftime(tick) == ToString(tick \div TicksPerSecond)

\* f"finops-workflow-{...}"
thread_id(tick) == "finops-workflow-" \o strftime(tick)

InitInvocations ==
    /\ pc = "main"
    /\ state = initial_state
    /\ calls = <<>>
    /\ executed = <<>>
    /\ reasoning_logs = <<>>
    /\ global_metrics = <<>>
    /\ final_state = None
    /\ caller_state = state

main_invoke ==
    /\ pc = "main"
    /\ Len(calls) < 2 * MaxInvocations
    /\ \E tick \in 0..MaxTick :
         calls' = calls \o << <<"datetime.now", ToString(tick)>>,
                              <<"graph.invoke", thread_id(tick)>> >>
    /\ UNCHANGED <<pc, state, executed, reasoning_logs, global_metrics, final_state,
                   caller_state>>

NextInvocations == main_invoke

SpecInvocations == InitInvocations /\ [][NextInvocations]_vars

\* ------------------------------------------------------------------------
\* The payment rail on its own: the standalone issue_bounty and the method
\* PaymasterAgent.issue_bounty called with any amount, any recipient, either
\* mode and any live environment
\* ------------------------------------------------------------------------
\* the calls PaymasterAgent.issue_bounty makes, in order
agent_issue_bounty_calls(amount, recipient_address, shadow_mode, account, transfer) ==
    IF recipient_address = None \/ ~startswith_0x(Val(recipient_address))
    THEN <<>>
    ELSE IF amount <= 0
    THEN <<>>
    ELSE IF shadow_mode
    THEN << <<"simulate_blockchain_transaction", "ok">> >>
    ELSE IF ~account
    THEN << <<"simulate_blockchain_transaction", "ok">> >>
    ELSE IF transfer = "run_raises"
    THEN << <<"_transfer_async", "raise">>,
            <<"simulate_blockchain_transaction", "ok">> >>
    ELSE IF transfer \in {"zero_balance", "insufficient_balance"}
    THEN << <<"_transfer_async", "ok">> >>
    ELSE << <<"_transfer_async", "ok">>,
            <<"account.transfer", IF transfer = "submitted" THEN "ok" ELSE "raise">> >>

\* the calls the standalone issue_bounty makes, in order
issue_bounty_calls(amount, recipient_address, shadow_mode, env) ==
    IF shadow_mode
    THEN << <<"simulate_blockchain_transaction", "ok">> >>
    ELSE IF ~env.credentials
    THEN << <<"PaymasterAgent", "raise">>,
            <<"simulate_blockchain_transaction", "ok">> >>
    ELSE IF ~env.wallet
    THEN << <<"PaymasterAgent", "ok">>,
            <<"initialize_wallet", "raise">>,
            <<"simulate_blockchain_transaction", "ok">> >>
    ELSE << <<"PaymasterAgent", "ok">>, <<"initialize_wallet", "ok">> >>
         \o agent_issue_bounty_calls(amount, recipient_address, FALSE, TRUE, env.transfer)
         \o (IF agent_issue_bounty(amount, recipient_address, FALSE, TRUE,
                                   env.transfer, "a1").raised
             THEN << <<"simulate_blockchain_transaction", "ok">> >>
             ELSE <<>>)

InitRail ==
    /\ pc = "rail"
    /\ \E amount \in {-1, 0, ShadowBounty},
          recipient_address \in {None, Some(""), Some("abc"), Some("0xA")},
          shadow_mode \in BOOLEAN,
          env \in LiveEnvs :
         state = [amount |-> amount,
                  recipient_address |-> recipient_address,
                  shadow_mode |-> shadow_mode,
                  env |-> env]
    /\ calls = <<>>
    /\ executed = <<>>
    /\ reasoning_logs = <<>>
    /\ global_metrics = <<>>
    /\ final_state = None
    /\ caller_state = state

\* a caller of the standalone function
call_issue_bounty ==
    /\ pc = "rail"
    /\ \E random_hex \in TokenHex :
         final_state' = Some(issue_bounty(state.amount, state.recipient_address,
                                          state.shadow_mode, state.env, random_hex))
    /\ calls' = issue_bounty_calls(state.amount, state.recipient_address,
                                   state.shadow_mode, state.env)
    /\ executed' = <<"issue_bounty">>
    /\ pc' = "returned"
    /\ UNCHANGED <<state, reasoning_logs, global_metrics, caller_state>>

\* a caller of the method, on an agent whose account exists when the wallet
\* could be initialised
call_agent_issue_bounty ==
    /\ pc = "rail"
    /\ \E random_hex \in TokenHex :
         LET result == agent_issue_bounty(state.amount, state.recipient_address,
                                          state.shadow_mode, state.env.wallet,
                                          state.env.transfer, random_hex)
         IN /\ final_state' = result.value
            /\ pc' = IF result.raised THEN "raised" ELSE "returned"
    /\ calls' = agent_issue_bounty_calls(state.amount, state.recipient_address,
                                         state.shadow_mode, state.env.wallet,
                                         state.env.transfer)
    /\ executed' = <<"PaymasterAgent.issue_bounty">>
    /\ UNCHANGED <<state, reasoning_logs, global_metrics, caller_state>>

NextRail ==
    \/ call_issue_bounty
    \/ call_agent_issue_bounty

SpecRail == InitRail /\ [][NextRail]_vars

\* ------------------------------------------------------------------------
\* The store's search on its own: search_infra_context called with any
\* query, limit and score threshold, on any corpus and with any outcome of
\* the embedding and of the aggregation
\* ------------------------------------------------------------------------
InitSearch ==
    /\ pc = "search"
    /\ \E query \in {"", "  ", "cpu"},
          limit \in {1, SearchLimit},
          score_threshold \in {DefaultScoreThreshold, Threshold},
          outcome \in SearchOutcomes :
         \E corpus \in (IF outcome = "ok" THEN Corpora ELSE {<<>>}) :
           state = [query |-> query,
                    limit |-> limit,
                    score_threshold |-> score_threshold,
                    outcome |-> outcome,
                    corpus |-> corpus]
    /\ calls = <<>>
    /\ executed = <<>>
    /\ reasoning_logs = <<>>
    /\ global_metrics = <<>>
    /\ final_state = None
    /\ caller_state = state

\* a caller of db.search_infra_context(query, limit, score_threshold)
call_search_infra_context ==
    /\ pc = "search"
    /\ LET found == search_infra_context(state.query, state.limit, state.score_threshold,
                                         state.outcome, state.corpus)
       IN /\ final_state' = IF found.raised THEN None ELSE Some(found.value)
          /\ pc' = IF found.raised THEN "raised" ELSE "returned"
    /\ executed' = <<"search_infra_context">>
    /\ UNCHANGED <<state, calls, reasoning_logs, global_metrics, caller_state>>

NextSearch == call_search_infra_context

SpecSearch == InitSearch /\ [][NextSearch]_vars

\* ------------------------------------------------------------------------
\* Vocabulary of the properties
\* ------------------------------------------------------------------------
Range(seq) == {seq[i] : i \in DOMAIN seq}

Called(callee) == \E i \in DOMAIN calls : calls[i][1] = callee

CalledWith(callee, outcome) == <<callee, outcome>> \in Range(calls)

Ran(node) == node \in Range(executed)

TimesRan(nodes) == Cardinality({i \in DOMAIN executed : executed[i] \in nodes})

\* seq is extension with seq as its first entries
IsPrefix(seq, extension) ==
    /\ Len(seq) <= Len(extension)
    /\ SubSeq(extension, 1, Len(seq)) = seq

\* the search returned no match
NoContext == CalledWith("results", "empty")

\* the search returned matches and the recorded confidence is below the
\* threshold
LowConfidence ==
    /\ CalledWith("results", "matches")
    /\ state.confidence_score # None
    /\ Val(state.confidence_score) < Threshold

\* the gate decided ESCALATE
GateEscalated == NoContext \/ LowConfidence

\* the store or the reasoning service raised inside the auditor
AuditorCollaboratorFailed ==
    \/ (calls # <<>> /\ calls[1] = <<"FinOpsDB", "raise">>)
    \/ CalledWith("search_infra_context", "operation_failure")
    \/ CalledWith("generate_content", "raise")
    \/ CalledWith("generate_content", "none")

\* the reasoning service returned a text
AnalysisReturned == CalledWith("generate_content", "ok")

\* closing the store at the end of the auditor's analysis failed
AuditorCloseFailed ==
    \E i \in DOMAIN calls :
        /\ calls[i] = <<"generate_content", "ok">>
        /\ i + 1 \in DOMAIN calls
        /\ calls[i + 1] = <<"close", "raise">>

TriggerWords == {"decommission", "optimize", "monitor"}

\* the trigger words that occur in a text, whatever their letter case
WordsPresent(text) ==
    {kw \in TriggerWords : \E i \in DOMAIN text : kw \in SubstringsOf(LowerWord(text[i]))}

\* the pair of the highest-priority trigger word of a set
PairOfHighestPriority(present) ==
    IF "decommission" \in present THEN <<"DECOMMISSION", "APPROVED">>
    ELSE IF "optimize" \in present THEN <<"OPTIMIZE", "REVIEW">>
    ELSE IF "monitor" \in present THEN <<"MONITOR", "REVIEW">>
    ELSE <<"REVIEW", "REVIEW">>

\* the classification a state carries agrees with the priority rule
ClassifiedByPriority(s) ==
    /\ s.analysis # None
    /\ <<s.recommendation, s.auditor_status>> =
         LET pair == PairOfHighestPriority(WordsPresent(Val(s.analysis)))
         IN <<Some(pair[1]), Some(pair[2])>>

\* ------------------------------------------------------------------------
\* Properties
\* ------------------------------------------------------------------------
\* C1: no node raises past its boundary, whatever the collaborators do, so
\* graph.invoke hands a final state to main; this covers escalate_node
\* running while confidence_score is still None.
C1_NoNodeRaises ==
    /\ pc # "RAISED"
    /\ (pc = "DONE" => final_state # None)

\* C2: every run executes exactly one terminal node, reaches END, and ends
\* with workflow_status ESCALATED or COMPLETED.
C2_RunEndsInTerminalStatus ==
    pc = "DONE" =>
        /\ TimesRan({"escalate", "complete"}) = 1
        /\ final_state # None
        /\ Val(final_state).workflow_status \in {"ESCALATED", "COMPLETED"}

\* C3: when opening the store, searching it or generating the analysis
\* raises inside the auditor, the run ends with a final state whose status
\* is ESCALATED and whose audit trail has an Auditor error entry followed by
\* the terminal escalation entry.
C3_AuditorFailureEscalates ==
    (pc = "DONE" /\ AuditorCollaboratorFailed) =>
        /\ final_state # None
        /\ Val(final_state).workflow_status = "ESCALATED"
        /\ LET log == Val(final_state).audit_log
           IN /\ Len(log) >= 2
              /\ log[Len(log)] = <<"System", "Alert escalated to human review", "">>
              /\ \E i \in 1..(Len(log) - 1) :
                     log[i][1] = "Auditor" /\ log[i][2] = "ERROR"

\* C4: when the search returned matches and the recorded confidence is
\* below the threshold, the run is escalated with recommendation NO CHANGE,
\* the reasoning service is never called, and that is the final state.
C4_LowConfidenceEscalates ==
    LowConfidence =>
        /\ state.workflow_status = "ESCALATED"
        /\ state.recommendation = Some("NO CHANGE")
        /\ ~Called("generate_content")
        /\ pc \in {"router", "escalate", "END", "DONE"}
        /\ (pc = "DONE" => final_state = Some(state))

C4_Witness ==
    /\ pc = "DONE"
    /\ LowConfidence
    /\ final_state # None
    /\ Val(final_state).recommendation = Some("NO CHANGE")
    /\ Ran("escalate")

\* C5: when the search returns no match, confidence_score is recorded as 0
\* and the run ends ESCALATED; neither the reasoning service nor the
\* paymaster is invoked.
C5_NoContextEscalates ==
    NoContext =>
        /\ state.confidence_score = Some(0)
        /\ state.workflow_status = "ESCALATED"
        /\ ~Called("generate_content")
        /\ ~Called("issue_bounty")
        /\ ~Ran("paymaster")
        /\ pc \in {"router", "escalate", "END", "DONE"}
        /\ (pc = "DONE" => final_state = Some(state))

C5_Witness ==
    /\ pc = "DONE"
    /\ NoContext
    /\ final_state # None
    /\ Val(final_state).confidence_score = Some(0)
    /\ Ran("escalate")

\* C6: every run the gate escalated, for low confidence or for no context
\* at all, ends with recommendation NO CHANGE.
C6_EscalationSetsNoChange ==
    (pc = "DONE" /\ GateEscalated) =>
        /\ final_state # None
        /\ Val(final_state).recommendation = Some("NO CHANGE")

\* C7: in every run the gate escalated, save_reasoning_log has been called
\* by the time the run ends.
C7_EscalationIsLogged ==
    (pc \in {"END", "DONE"} /\ GateEscalated) => Called("save_reasoning_log")

\* C8 as claimed: whenever the reasoning service returned a text, the run
\* ends COMPLETED with the classification of the text, and the paymaster
\* ran exactly when the classification is APPROVED.
C8_AnalysisCompletes ==
    (pc = "DONE" /\ AnalysisReturned) =>
        /\ final_state # None
        /\ Val(final_state).workflow_status = "COMPLETED"
        /\ ClassifiedByPriority(Val(final_state))
        /\ (Ran("paymaster") <=> Val(final_state).auditor_status = Some("APPROVED"))
        /\ Ran("complete")

\* C8 amended: whenever the reasoning service returned a text and the store
\* was then closed without error, the run ends COMPLETED through complete
\* with the classification of the text, and with the paymaster in between
\* exactly when the classification is APPROVED; if closing the store failed
\* the run ends ESCALATED through escalate and the paymaster does not run.
C8_AnalysisCompletesUnlessCloseFails ==
    (pc = "DONE" /\ AnalysisReturned) =>
        /\ final_state # None
        /\ IF AuditorCloseFailed
           THEN /\ Val(final_state).workflow_status = "ESCALATED"
                /\ executed = <<"scout", "auditor", "escalate">>
           ELSE /\ Val(final_state).workflow_status = "COMPLETED"
                /\ ClassifiedByPriority(Val(final_state))
                /\ IF Val(final_state).auditor_status = Some("APPROVED")
                   THEN executed = <<"scout", "auditor", "paymaster", "complete">>
                   ELSE executed = <<"scout", "auditor", "complete">>

C8_Witness ==
    /\ pc = "DONE"
    /\ AnalysisReturned
    /\ ~AuditorCloseFailed
    /\ final_state # None
    /\ Val(final_state).recommendation = Some("OPTIMIZE")
    /\ executed = <<"scout", "auditor", "complete">>

\* C9: the classification is the pair of the highest-priority trigger word
\* present in the text (decommission, then optimize, then monitor, else
\* review), in any order and letter case, and every text gets a pair.
C9_ClassifierPriority ==
    pc \in {"classified", "reclassified"} => ClassifiedByPriority(state)

C9_Witness ==
    /\ pc = "classified"
    /\ state.analysis = Some(<<"monitor", "Optimize", "DECOMMISSION">>)
    /\ state.recommendation = Some("DECOMMISSION")

RuleOf(workflow_status, auditor_status) ==
    IF workflow_status = "ESCALATED" THEN "escalate"
    ELSE IF auditor_status = Some("APPROVED") THEN "paymaster"
    ELSE "complete"

\* C11: route_workflow is a function of workflow_status and auditor_status
\* alone: an ESCALATED state goes to escalate even when it is APPROVED, a
\* COMPLETED and APPROVED state goes to paymaster, a COMPLETED state with
\* any other auditor_status goes to complete, whatever the other fields
\* hold, and the routing changes no field of the state
C11_RouterIsPureFunctionOfStatus ==
    [][(pc = "router" /\ state.workflow_status \in {"ESCALATED", "COMPLETED"})
        => /\ pc' = RuleOf(state.workflow_status, state.auditor_status)
           /\ state' = state]_vars

\* an escalated state that carries an approval has been routed
C11_Witness ==
    /\ pc = "escalate"
    /\ state.workflow_status = "ESCALATED"
    /\ state.auditor_status = Some("APPROVED")
    /\ state.recommendation = Some("DECOMMISSION")
    /\ executed = <<>>

\* C12: whatever exit path auditor_node takes (no alert, no context, low
\* confidence, analysis, caught exception), it leaves workflow_status
\* ESCALATED or COMPLETED, so route_workflow returns escalate, paymaster or
\* complete and never continue; and no step leads back to scout or auditor
C12_RoutingIsTotal ==
    [][/\ pc = "router"
          => /\ state.workflow_status \in {"ESCALATED", "COMPLETED"}
             /\ route_workflow(state) \in {"escalate", "paymaster", "complete"}
             /\ pc' \in {"escalate", "paymaster", "complete"}
       /\ pc' \notin {"scout", "auditor"}]_vars

\* the auditor left through its first return, without an alert, and the
\* router sent the run to escalate
C12_Witness ==
    /\ pc = "escalate"
    /\ executed = <<"auditor">>
    /\ state.server_info = None
    /\ state.workflow_status = "ESCALATED"

\* C13: in every state of a run, auditor_status = APPROVED implies that
\* the recommendation is DECOMMISSION and that confidence_score is set and
\* is at least the threshold
C13_ApprovedImpliesDecommission ==
    state.auditor_status = Some("APPROVED")
        => /\ state.recommendation = Some("DECOMMISSION")
           /\ state.confidence_score # None
           /\ Val(state.confidence_score) >= 80

\* a run that ended with an approval
C13_Witness ==
    /\ pc = "DONE"
    /\ final_state # None
    /\ state.auditor_status = Some("APPROVED")
    /\ Ran("paymaster")

\* C14: once workflow_status is ESCALATED or COMPLETED, the nodes that run
\* afterwards (paymaster, escalate, complete) change neither server_info,
\* confidence_score nor recommendation; they only append to audit_log and
\* set tx_hash, total_savings_usd and total_bounties_paid_eth
C14_LaterNodesKeepAuditorFields ==
    [][(pc \in {"paymaster", "escalate", "complete"}
        /\ state.workflow_status \in {"ESCALATED", "COMPLETED"})
        => /\ state'.server_info = state.server_info
           /\ state'.confidence_score = state.confidence_score
           /\ state'.recommendation = state.recommendation
           /\ state'.workflow_status = state.workflow_status
           /\ state'.auditor_status = state.auditor_status
           /\ state'.context_data = state.context_data
           /\ state'.analysis = state.analysis
           /\ IsPrefix(state.audit_log, state'.audit_log)]_vars

\* the paymaster and the complete node have both run after the auditor
\* completed, and the paymaster went through its except branch
C14_Witness ==
    /\ pc = "END"
    /\ executed = <<"scout", "auditor", "paymaster", "complete">>
    /\ \E i \in DOMAIN state.audit_log :
          /\ state.audit_log[i][1] = "Paymaster"
          /\ state.audit_log[i][2] = "ERROR"
    /\ state.recommendation = Some("DECOMMISSION")

\* C15: the paymaster is entered only with auditor_status = APPROVED and
\* workflow_status = COMPLETED; a run whose status is ESCALATED never runs
\* the paymaster nor calls issue_bounty, and keeps tx_hash = None and both
\* accumulators at 0 to its end
C15_PaymasterOnlyWhenApprovedAndCompleted ==
    /\ (pc = "paymaster" \/ Ran("paymaster"))
         => /\ state.auditor_status = Some("APPROVED")
            /\ state.workflow_status = "COMPLETED"
    /\ state.workflow_status = "ESCALATED"
         => /\ pc # "paymaster"
            /\ ~Ran("paymaster")
            /\ ~Called("issue_bounty")
            /\ state.tx_hash = None
            /\ state.total_savings_usd = 0
            /\ state.total_bounties_paid_eth = 0

\* a run that was approved and then escalated has ended without a payment
C15_Witness ==
    /\ pc = "DONE"
    /\ final_state # None
    /\ state.workflow_status = "ESCALATED"
    /\ state.auditor_status = Some("APPROVED")
    /\ Ran("escalate")

\* the entries of an audit log that report an escalation: those of the
\* auditor's gate and that of the escalate node
AuditorEscalationEntries(log) ==
    {i \in DOMAIN log :
        /\ log[i][1] = "Auditor"
        /\ log[i][2] \in {"ESCALATED - No matching context found",
                          "ESCALATED - Confidence below threshold. Recommendation: NO CHANGE"}}

SystemEscalationEntries(log) ==
    {i \in DOMAIN log :
        /\ log[i][1] = "System"
        /\ log[i][2] = "Alert escalated to human review"}

EscalationEntries(log) == AuditorEscalationEntries(log) \cup SystemEscalationEntries(log)

\* C16 as stated: a run escalated because the confidence is below the
\* threshold ends with exactly one escalation entry in audit_log, the
\* entries of auditor_node and of the escalate node counted together
C16_OneEscalationEntry ==
    (pc = "DONE" /\ LowConfidence)
        => Cardinality(EscalationEntries(state.audit_log)) = 1

\* C16 amended: a run escalated because the confidence is below the
\* threshold ends with exactly two escalation entries in audit_log, one
\* appended by auditor_node and one by the escalate node, in this order
C16_OneEscalationEntryPerNode ==
    (pc = "DONE" /\ LowConfidence)
        => /\ Cardinality(AuditorEscalationEntries(state.audit_log)) = 1
           /\ Cardinality(SystemEscalationEntries(state.audit_log)) = 1
           /\ \A i \in AuditorEscalationEntries(state.audit_log) :
                 \A j \in SystemEscalationEntries(state.audit_log) : i < j
           /\ state.audit_log[Len(state.audit_log)][2] = "Alert escalated to human review"

\* a run escalated for low confidence has ended
C16_Witness ==
    /\ pc = "DONE"
    /\ LowConfidence
    /\ final_state # None
    /\ executed = <<"scout", "auditor", "escalate">>
    /\ ~CalledWith("close", "raise")

\* the state holds no recipient for a payment: no context data, an empty
\* list, or a first match without a wallet address or with an empty one
NoRecipient(s) ==
    \/ s.context_data = None
    \/ s.context_data = Some(<<>>)
    \/ Val(s.context_data)[1].developer_wallet \in {Absent, Some("")}

PaymasterFailureMessages ==
    {"Failed - No context data", "Failed - No wallet address", "Payment failed", "ERROR"}

\* seq is log with exactly one entry appended, a failure entry of the
\* paymaster
OneFailureAppended(log, seq) ==
    /\ Len(seq) = Len(log) + 1
    /\ IsPrefix(log, seq)
    /\ seq[Len(seq)][1] = "Paymaster"
    /\ seq[Len(seq)][2] \in PaymasterFailureMessages

\* C17: when the paymaster runs on an approved state that holds no
\* recipient (no context data, an empty list, or a first match whose
\* wallet address is missing or empty), it appends exactly one failure
\* entry of the paymaster, never calls issue_bounty, leaves
\* workflow_status COMPLETED, tx_hash None and both accumulators as they
\* were, and the run proceeds to complete
C17_NoRecipientNoPayment ==
    [][(pc = "paymaster" /\ state.auditor_status = Some("APPROVED") /\ NoRecipient(state))
        => /\ OneFailureAppended(state.audit_log, state'.audit_log)
           /\ state' = [state EXCEPT !.audit_log = state'.audit_log]
           /\ state'.workflow_status = "COMPLETED"
           /\ state'.tx_hash = None
           /\ state'.total_savings_usd = 0
           /\ state'.total_bounties_paid_eth = 0
           /\ \A i \in DOMAIN calls' : calls'[i][1] # "issue_bounty"
           /\ reasoning_logs' = reasoning_logs
           /\ global_metrics' = global_metrics
           /\ pc' = "complete"]_vars

\* the paymaster has run on a first match with an empty wallet address
\* and reported it
C17_Witness ==
    /\ pc = "complete"
    /\ executed = <<"paymaster">>
    /\ state.auditor_status = Some("APPROVED")
    /\ state.context_data # None
    /\ Val(state.context_data) # <<>>
    /\ Val(state.context_data)[1].developer_wallet = Some("")
    /\ state.audit_log = << <<"Paymaster", "Failed - No wallet address", "">> >>

\* the payment rail failed the paymaster: issue_bounty could not be
\* imported inside the try block, or its result reports no success
RailFailed(c) ==
    \/ <<"import issue_bounty", "raise">> \in Range(c)
    \/ <<"issue_bounty", "failed">> \in Range(c)

AmountsSent == {calls[i][2] : i \in {j \in DOMAIN calls : calls[j][1] = "issue_bounty.amount"}}

\* the payment succeeded
PaymentSucceeded == CalledWith("issue_bounty", "ok")

\* C19: the accumulators change once per successful payment: after a
\* successful payment total_savings_usd is 720 times the hourly_cost of
\* the first context match and total_bounties_paid_eth is the amount
\* issue_bounty was called with, each added once to the initial 0; in a
\* run without a successful payment both stay 0
C19_AccumulatorsFollowPayment ==
    IF PaymentSucceeded
    THEN /\ Cardinality({i \in DOMAIN calls : calls[i][1] = "issue_bounty"}) = 1
         /\ state.total_savings_usd
              = 720 * Get(Val(state.context_data)[1].hourly_cost, 0)
         /\ AmountsSent = {ToString(state.total_bounties_paid_eth)}
         /\ state.total_bounties_paid_eth > 0
    ELSE /\ state.total_savings_usd = 0
         /\ state.total_bounties_paid_eth = 0

\* a run has ended after paying for a resource of 12.24 an hour
C19_Witness ==
    /\ pc = "DONE"
    /\ final_state # None
    /\ PaymentSucceeded
    /\ Val(state.context_data)[1].hourly_cost = Some(1224)
    /\ state.total_savings_usd = 881280
    /\ state.total_bounties_paid_eth = 5

\* clamp(x, min, max)
Clamp(x, lo, hi) == IF x < lo THEN lo ELSE IF x > hi THEN hi ELSE x

\* the hourly_cost the paymaster reads from the first context match
PaidHourlyCost == Get(Val(state.context_data)[1].hourly_cost, 0)

\* amounts from 0.00001 to 0.0001, in units of 0.00001 and as written by
\* ToString
AmountsWithinBounds == {ToString(n) : n \in 1..10}

RetrievalFailed ==
    \/ (calls # <<>> /\ calls[1] = <<"FinOpsDB", "raise">>)
    \/ CalledWith("search_infra_context", "operation_failure")
    \/ NoContext

\* C22: a retrieval failure counts as confidence 0: when the store cannot
\* be opened or searched, or the search returns nothing, the run ends
\* with a final state whose confidence_score is 0.0 and whose
\* workflow_status is ESCALATED
C22_RetrievalFailureIsZeroConfidence ==
    (pc = "DONE" /\ RetrievalFailed)
        => /\ final_state # None
           /\ state.confidence_score = Some(0)
           /\ state.workflow_status = "ESCALATED"

\* a write to the reasoning log or to the global metrics failed
PersistenceFailed ==
    \/ CalledWith("save_reasoning_log", "raise")
    \/ CalledWith("save_global_metrics", "raise")

\* C23: a failing save_reasoning_log or save_global_metrics never crashes
\* the run nor undoes its result: after the failed write in the auditor's
\* escalation path the state is still ESCALATED with NO CHANGE and no
\* payment, after the failed write in the paymaster it is still COMPLETED
\* with DECOMMISSION, the tx_hash and the accumulators of the payment; the
\* run reaches its terminal node and returns the final state
C23_PersistenceFailureIsHarmless ==
    PersistenceFailed
        => /\ pc # "RAISED"
           /\ IF PaymentSucceeded
              THEN /\ state.workflow_status = "COMPLETED"
                   /\ state.recommendation = Some("DECOMMISSION")
                   /\ state.tx_hash # None
                   /\ Val(state.tx_hash)[1] = "0x_sim_"
                   /\ state.total_savings_usd = 720 * PaidHourlyCost
                   /\ state.total_bounties_paid_eth = 5
              ELSE /\ state.workflow_status = "ESCALATED"
                   /\ state.recommendation = Some("NO CHANGE")
                   /\ state.tx_hash = None
                   /\ state.total_savings_usd = 0
                   /\ state.total_bounties_paid_eth = 0
           /\ pc = "DONE"
                => /\ final_state = Some(state)
                   /\ executed[Len(executed)]
                        = (IF PaymentSucceeded THEN "complete" ELSE "escalate")

\* a run whose metrics could not be written after the payment has ended
\* and returned its state
C23_Witness ==
    /\ pc = "DONE"
    /\ final_state # None
    /\ CalledWith("save_global_metrics", "raise")
    /\ state.tx_hash # None
    /\ state.audit_log[Len(state.audit_log) - 1] = <<"Paymaster", "ERROR", "metrics_raises">>

\* C24: when the router is reached with workflow_status = PROCESSING the
\* run is aborted with an error; it is not routed to a node nor to END
C24_ProcessingAbortsTheRun ==
    [][(pc = "router" /\ state.workflow_status = "PROCESSING")
        => pc' = "RAISED"]_vars

\* C25 as stated: paymaster_node invoked on a state whose auditor_status
\* is not APPROVED aborts the run with an error instead of returning a
\* state
C25_UnapprovedPaymasterAborts ==
    [][(pc = "paymaster" /\ state.auditor_status # Some("APPROVED"))
        => pc' = "RAISED"]_vars

\* C25 amended: paymaster_node invoked on a state whose auditor_status is
\* not APPROVED (REVIEW or null) appends one "Skipped - Not approved"
\* entry and returns the state otherwise unchanged; it makes no payment,
\* writes no record, and the run goes on to complete
C25_UnapprovedPaymasterSkips ==
    [][(pc = "paymaster" /\ state.auditor_status # Some("APPROVED"))
        => /\ state' = [state EXCEPT !.audit_log =
                           Append(@, <<"Paymaster", "Skipped - Not approved", "">>)]
           /\ calls' = calls
           /\ reasoning_logs' = reasoning_logs
           /\ global_metrics' = global_metrics
           /\ pc' = "complete"]_vars

\* the paymaster has run on a state without an approval and skipped it
C25_Witness ==
    /\ pc = "complete"
    /\ executed = <<"paymaster">>
    /\ state.auditor_status = None
    /\ state.context_data # None
    /\ state.audit_log = << <<"Paymaster", "Skipped - Not approved", "">> >>
    /\ state.tx_hash = None

\* the place of an author in the order the nodes execute
AuthorRank(author) ==
    CASE author = "Scout" -> 1
      [] author = "Auditor" -> 2
      [] author = "Paymaster" -> 3
      [] author = "System" -> 4

\* the entries of a log are in the order of their authors' nodes
InNodeOrder(log) ==
    \A i \in DOMAIN log : \A j \in DOMAIN log :
        i < j => AuthorRank(log[i][1]) <= AuthorRank(log[j][1])

\* C26: audit_log is append-only: every step of a run leaves the log it
\* found as a prefix of the log it leaves, so no entry is removed, moved
\* or rewritten and the length never decreases; the entries stand in the
\* order the nodes executed (Scout, Auditor, Paymaster if any, System),
\* and the trail of a returned final state ends with the System entry
C26_AuditLogIsAppendOnly ==
    [][/\ IsPrefix(state.audit_log, state'.audit_log)
       /\ Len(state'.audit_log) >= Len(state.audit_log)
       /\ InNodeOrder(state'.audit_log)
       /\ (pc' = "DONE" /\ final_state' # None)
          => /\ state'.audit_log # <<>>
             /\ state'.audit_log[Len(state'.audit_log)][1] = "System"
             /\ state'.audit_log[1][1] = "Scout"]_vars

\* a run has ended whose trail holds entries of all four authors
C26_Witness ==
    /\ pc = "DONE"
    /\ final_state # None
    /\ {state.audit_log[i][1] : i \in DOMAIN state.audit_log}
         = {"Scout", "Auditor", "Paymaster", "System"}
    /\ Len(state.audit_log) >= 5

\* the nodes of the graph
Nodes == {"scout", "auditor", "paymaster", "escalate", "complete"}

\* C27: the state is threaded by value: a node returns a new state and
\* leaves the state it was handed as it was, so a caller that holds the
\* input state, its audit_log included, sees no change after the call
C27_NodesLeaveTheirInputUnchanged ==
    [][(pc \in Nodes) => (caller_state' = state)]_vars

\* the places at which a node stands in the sequence of executed nodes
PlacesOf(node) == {i \in DOMAIN executed : executed[i] = node}

\* C28: a run is strictly sequential: every node executes at most once,
\* scout first and auditor second, paymaster only after auditor and
\* before complete, escalate and complete never both, and no node
\* executes after escalate or complete
C28_RunIsSequential ==
    /\ \A node \in Nodes : Cardinality(PlacesOf(node)) <= 1
    /\ Range(executed) \subseteq Nodes
    /\ Len(executed) >= 1 => executed[1] = "scout"
    /\ Len(executed) >= 2 => executed[2] = "auditor"
    /\ \A p \in PlacesOf("paymaster") :
          /\ \E a \in PlacesOf("auditor") : a < p
          /\ \A c \in PlacesOf("complete") : p < c
    /\ ~(Ran("escalate") /\ Ran("complete"))
    /\ \A e \in PlacesOf("escalate") \cup PlacesOf("complete") : e = Len(executed)
    /\ pc \in {"END", "RAISED", "DONE"} => (Ran("escalate") \/ Ran("complete"))

\* a run through all of scout, auditor, paymaster and complete has ended
C28_Witness ==
    /\ pc = "DONE"
    /\ executed = <<"scout", "auditor", "paymaster", "complete">>
    /\ final_state # None
    /\ state.tx_hash # None

\* what the paymaster writes into the trail about the handling of the
\* payment: success, skip or failure
PaymasterOutcomeMessages ==
    {"Payment successful (SHADOW)", "Skipped - Not approved"} \cup PaymasterFailureMessages

\* C29: the paymaster is always followed by complete: whenever
\* paymaster_node executes it appends at least one Paymaster entry that
\* records the outcome of the payment handling (success, skip or failure)
\* and returns, and the complete node executes next whatever the outcome
C29_PaymasterThenComplete ==
    [][/\ pc = "paymaster"
          => /\ pc' = "complete"
             /\ IsPrefix(state.audit_log, state'.audit_log)
             /\ Len(state'.audit_log) > Len(state.audit_log)
             /\ \A i \in DOMAIN state'.audit_log :
                   i > Len(state.audit_log)
                      => /\ state'.audit_log[i][1] = "Paymaster"
                         /\ state'.audit_log[i][2] \in PaymasterOutcomeMessages
       /\ (pc = "complete" /\ Ran("paymaster"))
          => /\ executed' = Append(executed, "complete")
             /\ pc' \in {"END", "RAISED"}]_vars

\* complete has executed after a paymaster whose persistence failed once
\* the payment was made
C29_Witness ==
    /\ pc = "END"
    /\ executed = <<"paymaster", "complete">>
    /\ state.tx_hash # None
    /\ CalledWith("save_reasoning_log", "raise")
    /\ Len(state.audit_log) = 3

\* the invocations of the graph made so far
Invocations == {i \in DOMAIN calls : calls[i][1] = "graph.invoke"}

\* C30: every invocation of the workflow has its own run identifier: any
\* two invocations of main, concurrent ones and ones within the same
\* second included, use different thread_id values
C30_ThreadIdsAreUnique ==
    \A i \in Invocations : \A j \in Invocations :
        i # j => calls[i][2] # calls[j][2]

\* C32: when no alert is bound to the state that leaves the scout
\* (server_info is None), the run goes to a terminal COMPLETED state with
\* an audit note that no alert was available, and no work of the auditor
\* (store, search, gate, reasoning service) is done
C32_NoAlertCompletes ==
    (pc = "DONE" /\ state.server_info = None)
        => /\ final_state # None
           /\ state.workflow_status = "COMPLETED"
           /\ state.audit_log # <<>>
           /\ calls = <<>>

\* the number of calls of a collaborator made so far in the run
TimesCalled(callee) == Cardinality({i \in DOMAIN calls : calls[i][1] = callee})

\* C33: every run that reaches a terminal status (escalated for any
\* reason, completed without approval, completed with a successful, a
\* skipped or a failed payment) has called save_reasoning_log exactly
\* once, never zero times and never twice
C33_OneReasoningLogPerRun ==
    (pc = "DONE" /\ final_state # None)
        => TimesCalled("save_reasoning_log") = 1

\* the calls that belong to a live transfer
LiveCalls == {"PaymasterAgent", "initialize_wallet", "_transfer_async", "account.transfer"}

NoLiveCall == \A i \in DOMAIN calls : calls[i][1] \notin LiveCalls

\* the rail returned a fabricated receipt for the amount and recipient given
FabricatedReceipt ==
    /\ pc = "returned"
    /\ final_state # None
    /\ Val(final_state).success
    /\ Val(final_state).mode = "SHADOW"
    /\ Val(final_state).tx_hash # Absent
    /\ Val(Val(final_state).tx_hash)[1] = "0x_sim_"
    /\ Val(final_state).amount = state.amount
    /\ Val(final_state).recipient = state.recipient_address

\* the arguments pass the validation of PaymasterAgent.issue_bounty
ValidPayment ==
    /\ state.recipient_address # None
    /\ startswith_0x(Val(state.recipient_address))
    /\ state.amount > 0

\* C34 as stated: with shadow_mode = True, for every amount and recipient,
\* the standalone issue_bounty and the method PaymasterAgent.issue_bounty
\* return a fabricated receipt (success, mode SHADOW, tx_hash prefixed
\* '0x_sim_', the given amount and recipient) without creating a
\* PaymasterAgent, initialising a wallet or calling the transfer
C34_ShadowAlwaysFabricates ==
    (pc # "rail" /\ state.shadow_mode) => (FabricatedReceipt /\ NoLiveCall)

\* C34 amended: with shadow_mode = True no PaymasterAgent is created, no
\* wallet initialised and no transfer called; the standalone issue_bounty
\* returns a fabricated receipt for every amount and recipient; the method
\* returns one when the recipient starts with '0x' and the amount is
\* positive, and otherwise raises without returning a receipt
C34_ShadowNeverTransfers ==
    (pc # "rail" /\ state.shadow_mode)
        => /\ NoLiveCall
           /\ executed = <<"issue_bounty">> => FabricatedReceipt
           /\ (executed = <<"PaymasterAgent.issue_bounty">> /\ ValidPayment)
                  => FabricatedReceipt
           /\ (executed = <<"PaymasterAgent.issue_bounty">> /\ ~ValidPayment)
                  => (pc = "raised" /\ final_state = None /\ calls = <<>>)

\* the standalone function fabricated a receipt in shadow mode although the
\* live environment was ready to transfer
C34_Witness ==
    /\ state.shadow_mode
    /\ executed = <<"issue_bounty">>
    /\ state.env = [credentials |-> TRUE, wallet |-> TRUE, transfer |-> "submitted"]
    /\ FabricatedReceipt

\* C40: called with shadow_mode = False, issue_bounty (function or method)
\* returns a receipt with success = true only if a real transfer was
\* submitted to the payment network; with credentials missing, a wallet that
\* cannot be initialised, an invalid recipient, an amount <= 0 or a transfer
\* that raises, the caller gets an exception or success = false
C40_LiveSuccessIsRealTransfer ==
    (pc = "returned" /\ ~state.shadow_mode /\ Val(final_state).success)
        => /\ CalledWith("account.transfer", "ok")
           /\ ValidPayment

\* the calls of the search that have no results to return: a blank query, a
\* missing vector index, or no document at or above the threshold among the
\* first `limit` ones
SearchHasNoResults ==
    \/ state.query = "" \/ strip(state.query) = ""
    \/ state.outcome = "index_not_found"
    \/ /\ state.outcome = "ok"
       /\ \A i \in DOMAIN Take(state.corpus, state.limit) :
             Get(state.corpus[i].score, 0) < state.score_threshold

\* the outcomes in which the store could not be reached
TransportFailures == {"transport_error"}

\* C35: search_infra_context returns an empty sequence and does not raise
\* when there are no results (blank query, no match at or above
\* score_threshold, missing vector index); it raises to its caller only for
\* a transport failure; every match it returns has score >= score_threshold
C35_SearchRaisesOnlyForTransport ==
    (pc # "search")
        => /\ SearchHasNoResults => (pc = "returned" /\ final_state = Some(<<>>))
           /\ (pc = "raised") => (state.outcome \in TransportFailures)
           /\ (pc = "returned") =>
                 \A i \in DOMAIN Val(final_state) :
                    Get(Val(final_state)[i].score, 0) >= state.score_threshold

\* the scores of a sequence of matches, a match without a score counting 0
ScoresOf(matches) == {Get(matches[i].score, 0) : i \in DOMAIN matches}

\* the greatest of them
HighestScore(matches) ==
    CHOOSE m \in ScoresOf(matches) : \A x \in ScoresOf(matches) : x <= m

\* C36: when the search returned matches, the recorded confidence is the
\* maximum score over all of them (a match without a score counts as 0.0),
\* and the gate is strict: a confidence equal to the threshold proceeds to
\* the reasoning service, and only a confidence below it escalates
C36_ConfidenceIsMaxAndGateIsStrict ==
    CalledWith("results", "matches")
        => /\ state.confidence_score # None
           /\ state.context_data # None
           /\ Val(state.confidence_score) = HighestScore(Val(state.context_data))
           /\ (Val(state.confidence_score) >= Threshold) <=> Called("generate_content")
           /\ (Val(state.confidence_score) < Threshold)
                 => (state.workflow_status = "ESCALATED" /\ ~Called("generate_content"))

\* two matches, the first without a score and the second exactly at the
\* threshold: the run went on to the reasoning service
C36_Witness ==
    /\ CalledWith("results", "matches")
    /\ state.context_data # None
    /\ Len(Val(state.context_data)) = 2
    /\ Val(state.context_data)[1].score = Absent
    /\ Val(state.context_data)[2].score = Some(Threshold)
    /\ state.confidence_score = Some(Threshold)
    /\ Called("generate_content")

\* C37: an escalated run never carries an approval or an action
\* recommendation: in every state with workflow_status = ESCALATED,
\* auditor_status is null, recommendation is null or NO_CHANGE (the string
\* "NO CHANGE" of the code), and the
\* audit trail has no entry saying the analysis completed with status
\* COMPLETED; on every exit path of the auditor, a failure raised after the
\* classification included
C37_EscalatedCarriesNoApproval ==
    (state.workflow_status = "ESCALATED")
        => /\ state.auditor_status = None
           /\ state.recommendation \in {None, Some("NO CHANGE")}
           /\ \A i \in DOMAIN state.audit_log :
                 state.audit_log[i][2] # "Analysis completed - Status COMPLETED"

\* the places of the trail where the paymaster reports a successful payment
SuccessEntries ==
    {i \in DOMAIN state.audit_log :
        /\ state.audit_log[i][1] = "Paymaster"
        /\ state.audit_log[i][2] = "Payment successful (SHADOW)"}

\* the places where it reports a failure or an error
FailureEntries ==
    {i \in DOMAIN state.audit_log :
        /\ state.audit_log[i][1] = "Paymaster"
        /\ state.audit_log[i][2] \in PaymasterFailureMessages}

\* receipt, accumulator and trail say the same about the payment
ReceiptAgrees ==
    /\ (state.tx_hash # None) <=> (state.total_bounties_paid_eth > 0)
    /\ (state.tx_hash # None) <=> (Cardinality(SuccessEntries) = 1)
    /\ (state.tx_hash # None)
          => /\ state.workflow_status = "COMPLETED"
             /\ state.auditor_status = Some("APPROVED")
             /\ state.recommendation = Some("DECOMMISSION")

\* opening the store, a write or the closing failed after the payment
PersistenceOfPaymentFailed ==
    \E i, j \in DOMAIN calls :
        /\ calls[i] = <<"issue_bounty", "ok">>
        /\ i < j
        /\ calls[j][1] \in {"FinOpsDB", "save_reasoning_log", "save_global_metrics", "close"}
        /\ calls[j][2] = "raise"

\* C38 as stated: tx_hash is non-null iff total_bounties_paid_eth > 0 iff
\* the trail holds exactly one 'Paymaster: Payment successful' entry; with
\* a tx_hash the state is COMPLETED, APPROVED, DECOMMISSION and the trail
\* holds no failure or error entry of the paymaster
C38_ReceiptAccumulatorsTrailAgree ==
    /\ ReceiptAgrees
    /\ (state.tx_hash # None) => (FailureEntries = {})

\* C38 amended: the same agreement of receipt, accumulator and success
\* entry; with a tx_hash the trail holds no 'Failed' or 'Payment failed'
\* entry of the paymaster, and holds a 'Paymaster: ERROR' entry, after the
\* success entry, exactly when storing the records of the payment failed
C38_ReceiptAgreesErrorOnlyFromPersistence ==
    /\ ReceiptAgrees
    /\ (state.tx_hash # None)
          => /\ \A i \in FailureEntries :
                   /\ state.audit_log[i][2] = "ERROR"
                   /\ \A j \in SuccessEntries : j < i
             /\ (FailureEntries # {}) <=> PersistenceOfPaymentFailed

\* a paid run whose log record could not be written has ended
C38_Witness ==
    /\ pc = "DONE"
    /\ final_state # None
    /\ state.tx_hash # None
    /\ state.total_bounties_paid_eth = ShadowBounty
    /\ CalledWith("save_reasoning_log", "raise")
    /\ Cardinality(FailureEntries) = 1

\* C39: every reasoning log record is a projection of the state of the run
\* at the moment it is written: its workflow_status, recommendation and
\* confidence_score are those of the state (no later step changes them), so
\* the logged workflow_status is PROCESSING, ESCALATED or COMPLETED; and the
\* transaction it carries has the tx_hash of the receipt, the bounty added
\* to total_bounties_paid_eth and the developer_wallet of the first match
C39_LogRecordIsProjectionOfState ==
    \A i \in DOMAIN reasoning_logs :
        LET record == reasoning_logs[i]
        IN /\ record.workflow_status = state.workflow_status
           /\ record.workflow_status \in {"PROCESSING", "ESCALATED", "COMPLETED"}
           /\ record.recommendation = state.recommendation
           /\ record.confidence_score = state.confidence_score
           /\ (record.transaction # Absent)
                 => /\ Some(Val(record.transaction).tx_hash) = state.tx_hash
                    /\ Val(record.transaction).amount = state.total_bounties_paid_eth
                    /\ Val(record.transaction).recipient
                          = Val(state.context_data)[1].developer_wallet

====
